---- MODULE Spec2Model ----
(***************************************************************************)
(* A model of src/ExpenseClassifierApp.py: one rerun of the Streamlit      *)
(* script (ExpenseClassifierApp.run) from the budget input to the advice.  *)
(*                                                                         *)
(* Text is a sequence of characters, each written as a string, so that     *)
(* str.strip() and str.lower() are computed and not assumed.  A character  *)
(* is written as itself; a character without a printable form is written   *)
(* by the name of its code point ("U+2003" is the EM SPACE).               *)
(*                                                                         *)
(* A table cell is a record [kind, num, str]: NaN (kind "nan"), None, an   *)
(* int64, a float64, a bool, or a text.  Numbers are kept in hundredths,   *)
(* so that 1.5 is num = 150 and sums are exact; more than two decimals     *)
(* are cut.  A bool has num = 100 for True and 0 for False.  The zero a    *)
(* text such as -0.0 spells is marked by str = <<"-">>: as a float64 it is *)
(* -0.0, as an int64 the mark is dropped.  A table is a record [cols,      *)
(* rows]: the column names and, per row, one cell per column.  The dtype   *)
(* of a column is inferred from its cells as pandas infers it, which       *)
(* decides whether 5 is printed 5 or 5.0; iterrows hands a row of a table  *)
(* whose columns are all numeric and not all int64 as floats.              *)
(*                                                                         *)
(* The generative model (self.model.generate_content) is the environment:  *)
(* every call either returns one of Texts or raises one of Causes.  What   *)
(* is written to the page is recorded in ui.  Of the rendering calls only  *)
(* plt.pie raises (on a negative sum and on sums that are all zero).       *)
(* st.data_editor is given a table with a repeated column name in one      *)
(* disjunct of DisplayTable, and refuses it in the other.                  *)
(* groupby("category").sum() is taken not to raise on the other columns.   *)
(* Not modelled: inf and nan literals of pd.to_numeric and numbers beyond  *)
(* 32 bits, letters beyond Latin-1 in str.lower(), a repeated description  *)
(* or category column, the renaming pd.read_csv gives to header names      *)
(* that are equal before line 48.                                          *)
(***************************************************************************)
EXTENDS Integers, Sequences, FiniteSets, TLC

VARIABLES
    pc,         \* position in run(): budget, uploader, table, button, loop, graphs, advice, done
    budget,     \* self.budget, in hundredths
    csv,        \* the file offered to st.file_uploader: [kind, cols, rows], cells are texts
    session,    \* st.session_state: [has, data], "uploaded_data"
    input,      \* history: edited_data as st.data_editor returned it
    data,       \* edited_data, the DataFrame handed through the pipeline
    i,          \* categorize_expenses: 1-based index of the row of the loop
    categories, \* categorize_expenses: the local list categories
    calls,      \* history: every generate_content call, in order, with its outcome
    summary,    \* display_graphs: categorized_data, category -> summed amount
    ui          \* history: what was written to the page, in order

vars == <<pc, budget, csv, session, input, data, i, categories, calls, summary, ui>>

\* The largest number of rows of a file and of a table typed into the editor.
MaxRows == 2

-----------------------------------------------------------------------------
(* Text *)

\* the characters c with c.isspace(), which str.strip() removes
Whitespace ==
    {"\t", "\n", "U+000B", "\f", "\r", "U+001C", "U+001D", "U+001E",
     "U+001F", " ", "U+0085", "U+00A0", "U+1680", "U+2000", "U+2001",
     "U+2002", "U+2003", "U+2004", "U+2005", "U+2006", "U+2007", "U+2008",
     "U+2009", "U+200A", "U+2028", "U+2029", "U+202F", "U+205F", "U+3000"}

\* the cased letters of ASCII and Latin-1 and their str.lower()
UpperCase ==
    <<"A", "B", "C", "D", "E", "F", "G", "H", "I", "J", "K", "L", "M", "N",
      "O", "P", "Q", "R", "S", "T", "U", "V", "W", "X", "Y", "Z", "À", "Á",
      "Â", "Ã", "Ä", "Å", "Æ", "Ç", "È", "É", "Ê", "Ë", "Ì", "Í", "Î", "Ï",
      "Ð", "Ñ", "Ò", "Ó", "Ô", "Õ", "Ö", "Ø", "Ù", "Ú", "Û", "Ü", "Ý", "Þ">>

LowerCase ==
    <<"a", "b", "c", "d", "e", "f", "g", "h", "i", "j", "k", "l", "m", "n",
      "o", "p", "q", "r", "s", "t", "u", "v", "w", "x", "y", "z", "à", "á",
      "â", "ã", "ä", "å", "æ", "ç", "è", "é", "ê", "ë", "ì", "í", "î", "ï",
      "ð", "ñ", "ò", "ó", "ô", "õ", "ö", "ø", "ù", "ú", "û", "ü", "ý", "þ">>

\* the white space the number parser of pandas skips (isspace_ascii)
AsciiSpace == {" ", "\t", "\n", "U+000B", "\f", "\r"}

RECURSIVE LTrim(_, _)
\* s without its leading characters of set
LTrim(s, set) ==
    IF s # <<>> /\ Head(s) \in set THEN LTrim(Tail(s), set) ELSE s

RECURSIVE RTrim(_, _)
\* s without its trailing characters of set
RTrim(s, set) ==
    IF s # <<>> /\ s[Len(s)] \in set
    THEN RTrim(SubSeq(s, 1, Len(s) - 1), set)
    ELSE s

LStrip(s) == LTrim(s, Whitespace)

RStrip(s) == RTrim(s, Whitespace)

\* str.strip()
Strip(s) == RStrip(LStrip(s))

LowerChar(c) ==
    IF \E k \in 1..Len(UpperCase) : UpperCase[k] = c
    THEN LowerCase[CHOOSE k \in 1..Len(UpperCase) : UpperCase[k] = c]
    ELSE c

\* str.lower()
Lower(s) == [k \in 1..Len(s) |-> LowerChar(s[k])]

DigitChars == <<"0","1","2","3","4","5","6","7","8","9">>

IsDigit(c) == \E k \in 1..Len(DigitChars) : DigitChars[k] = c

DigitValue(c) == (CHOOSE k \in 1..Len(DigitChars) : DigitChars[k] = c) - 1

AllDigits(s) == \A k \in 1..Len(s) : IsDigit(s[k])

\* str() of a non-negative whole number
RECURSIVE IntToStr(_)
IntToStr(n) ==
    IF n < 10 THEN <<DigitChars[n + 1]>>
    ELSE IntToStr(n \div 10) \o <<DigitChars[(n % 10) + 1]>>

RECURSIVE ParseDigits(_, _)
ParseDigits(s, acc) ==
    IF s = <<>> THEN acc
    ELSE ParseDigits(Tail(s), acc * 10 + DigitValue(Head(s)))

RECURSIVE Pow10(_)
Pow10(n) == IF n = 0 THEN 1 ELSE 10 * Pow10(n - 1)

\* the one element of a set of one element
The(S) == CHOOSE x \in S : TRUE

-----------------------------------------------------------------------------
(* Cells *)

NaN == [kind |-> "nan", num |-> 0, str |-> <<>>]

None == [kind |-> "none", num |-> 0, str |-> <<>>]

\* the whole number n as an int64
PyInt(n) == [kind |-> "int", num |-> n * 100, str |-> <<>>]

\* h hundredths as a float64
PyFloat(h) == [kind |-> "float", num |-> h, str |-> <<>>]

\* True or False
PyBool(b) == [kind |-> "bool", num |-> IF b THEN 100 ELSE 0, str |-> <<>>]

Str(s) == [kind |-> "str", num |-> 0, str |-> s]

\* row[name] when several columns bear the name
Series == [kind |-> "series", num |-> 0, str |-> <<>>]

\* str() of a number with its sign
Signed(h, digits) == IF h < 0 THEN <<"-">> \o digits ELSE digits

Abs(h) == IF h < 0 THEN -h ELSE h

\* repr of a float64 of h hundredths: 5.0, 1.5, 0.25
FloatToStr(h) ==
    Signed(h, IntToStr(Abs(h) \div 100) \o <<".">>
              \o (IF Abs(h) % 10 = 0
                  THEN <<DigitChars[((Abs(h) % 100) \div 10) + 1]>>
                  ELSE <<DigitChars[((Abs(h) % 100) \div 10) + 1],
                         DigitChars[(Abs(h) % 10) + 1]>>))

\* str(x) as an f-string renders a cell
PyStr(x) ==
    CASE x.kind = "nan"   -> <<"n","a","n">>
      [] x.kind = "none"  -> <<"N","o","n","e">>
      [] x.kind = "int"   -> Signed(x.num, IntToStr(Abs(x.num) \div 100))
      [] x.kind = "float" -> IF x.num = 0 /\ x.str # <<>>
                             THEN <<"-">> \o FloatToStr(0)
                             ELSE FloatToStr(x.num)
      [] x.kind = "bool"  -> IF x.num = 0 THEN <<"F","a","l","s","e">> ELSE <<"T","r","u","e">>
      [] OTHER            -> x.str

\* 1 when s starts with a sign, 0 when not
SignLen(s) == IF s # <<>> /\ s[1] \in {"+", "-"} THEN 1 ELSE 0

\* the position of the exponent mark of s, Len(s) + 1 when it has none
MarkAt(s) ==
    IF \E k \in 1..Len(s) : s[k] \in {"e", "E"}
    THEN CHOOSE k \in 1..Len(s) :
            s[k] \in {"e", "E"} /\ \A m \in 1..(k - 1) : s[m] \notin {"e", "E"}
    ELSE Len(s) + 1

\* the position of the decimal point of s before position e, e when it has none
PointAt(s, e) ==
    IF \E k \in 1..(e - 1) : s[k] = "."
    THEN CHOOSE k \in 1..(e - 1) : s[k] = "." /\ \A m \in 1..(k - 1) : s[m] # "."
    ELSE e

\* s from position m to position n, empty when n < m
Slice(s, m, n) == IF n < m THEN <<>> ELSE SubSeq(s, m, n)

\* the number s spells with its point at d and its exponent mark at e:
\* [ok, whole, num, minus], num in hundredths, minus for a zero with the
\* sign -
Number(s, d, e) ==
    LET whole == Slice(s, SignLen(s) + 1, d - 1)
        frac  == Slice(s, d + 1, e - 1)
        expo  == Slice(s, e + 1, Len(s))
        edig  == Slice(expo, SignLen(expo) + 1, Len(expo))
        ok    == /\ AllDigits(whole)
                 /\ AllDigits(frac)
                 /\ Len(whole) + Len(frac) > 0
                 /\ e <= Len(s) => (edig # <<>> /\ AllDigits(edig))
        shift == 2 - Len(frac)
                 + (IF expo # <<>> /\ expo[1] = "-"
                    THEN -ParseDigits(edig, 0) ELSE ParseDigits(edig, 0))
        m     == ParseDigits(whole \o frac, 0)
        mag   == IF shift >= 0 THEN m * Pow10(shift) ELSE m \div Pow10(-shift)
    IN  IF ok
        THEN [ok |-> TRUE, whole |-> (d = e /\ e > Len(s)),
              num |-> IF s[1] = "-" THEN -mag ELSE mag,
              minus |-> (s[1] = "-" /\ mag = 0)]
        ELSE [ok |-> FALSE, whole |-> FALSE, num |-> 0, minus |-> FALSE]

\* the number a text spells, as the parser of pd.to_numeric and pd.read_csv
\* reads it: ASCII white space around it, a sign, digits with a decimal
\* point, an exponent
Literal(text) ==
    The({ The({ The({ Number(s, d, e) : d \in {PointAt(s, e)} })
                : e \in {MarkAt(s)} })
          : s \in {RTrim(LTrim(text, AsciiSpace), AsciiSpace)} })

\* pd.to_numeric(x, errors='coerce') on one cell
ToNumeric(x) ==
    CASE x.kind \in {"nan", "none"}  -> NaN
      [] x.kind \in {"int", "float", "bool"} -> x
      [] OTHER ->
            The({ IF n.ok
                  THEN [kind |-> IF n.whole THEN "int" ELSE "float",
                        num |-> n.num,
                        str |-> IF n.minus THEN <<"-">> ELSE <<>>]
                  ELSE NaN
                  : n \in {Literal(x.str)} })

\* a variant of NotNull: a text that is no number counts as null too
NotNullNumeric(x) == ToNumeric(x).kind # "nan"

\* pd.notnull(x)
NotNull(x) == x.kind \notin {"nan", "none"}

\* a NaN counts as 0 and True as 1 in Series.sum() and in groupby(...).sum()
SumValue(x) == IF x.kind \in {"int", "float", "bool"} THEN x.num ELSE 0

\* the dtype pandas gives a column of these cells: int64, float64, bool or
\* object
ColumnKind(rows, j) ==
    LET kinds == {rows[r][j].kind : r \in 1..Len(rows)}
    IN  CASE "str" \in kinds \/ kinds \subseteq {"none"}       -> "object"
          [] kinds = {"bool"}                                   -> "bool"
          [] "bool" \in kinds                                   -> "object"
          [] kinds \cap {"float", "nan", "none"} # {}          -> "float"
          [] OTHER                                              -> "int"

\* a cell as a column of dtype float64 holds it
AsFloat(x) ==
    CASE x.kind = "int"  -> [x EXCEPT !.kind = "float"]
      [] x.kind = "none" -> NaN
      [] OTHER           -> x

\* a cell as a column of dtype int64 holds it: a zero has no sign
AsInt(x) == [x EXCEPT !.str = <<>>]

\* the rows as a DataFrame of n columns holds them
Typed(rows, n) ==
    [r \in 1..Len(rows) |->
        [j \in 1..n |->
            CASE ColumnKind(rows, j) = "float" -> AsFloat(rows[r][j])
              [] ColumnKind(rows, j) = "int"   -> AsInt(rows[r][j])
              [] OTHER                         -> rows[r][j]]]

-----------------------------------------------------------------------------
(* Column names and constant texts of the program *)

cDate == <<"D","a","t","e">>
cDescription == <<"D","e","s","c","r","i","p","t","i","o","n">>
cAmount == <<"A","m","o","u","n","t">>
kDate == <<"d","a","t","e">>
kDescription == <<"d","e","s","c","r","i","p","t","i","o","n">>
kAmount == <<"a","m","o","u","n","t">>
kCategory == <<"c","a","t","e","g","o","r","y">>

Uncategorized == <<"U","n","c","a","t","e","g","o","r","i","z","e","d">>

ErrorPrefix == <<"E","r","r","o","r",":"," ">>

\* column_mapping.get(col, col)
ColumnMapping(col) ==
    CASE col = kDate        -> cDate
      [] col = kDescription -> cDescription
      [] col = kAmount      -> cAmount
      [] OTHER              -> col

\* data.columns.str.strip().str.lower() on one name
StripLower(col) == Lower(Strip(col))

\* a variant of NormalizeColumn: the lower-cased name serves the lookup only
NormalizeColumnKeepsOther(col) ==
    IF StripLower(col) \in {kDate, kDescription, kAmount}
    THEN ColumnMapping(StripLower(col))
    ELSE col

\* display_file_uploader: the new name of one column
NormalizeColumn(col) == ColumnMapping(StripLower(col))

\* the columns that bear the name
ColsNamed(cols, name) == {j \in 1..Len(cols) : cols[j] = name}

\* the first column that bears the name, 0 when there is none
ColIndex(cols, name) ==
    IF ColsNamed(cols, name) # {}
    THEN CHOOSE j \in ColsNamed(cols, name) : \A k \in ColsNamed(cols, name) : j <= k
    ELSE 0

HasCol(cols, name) == ColsNamed(cols, name) # {}

\* row[name]: a cell, or a Series when several columns bear the name
Cell(tbl, r, name) ==
    IF Cardinality(ColsNamed(tbl.cols, name)) > 1
    THEN Series
    ELSE tbl.rows[r][ColIndex(tbl.cols, name)]

\* data.iterrows(): a row of a table whose columns are all numeric is
\* handed out in their common dtype
AllNumeric(tbl) ==
    \A j \in 1..Len(tbl.cols) : ColumnKind(tbl.rows, j) \in {"int", "float"}

Iterrows(tbl) ==
    IF AllNumeric(tbl) /\ \E j \in 1..Len(tbl.cols) : ColumnKind(tbl.rows, j) = "float"
    THEN [tbl EXCEPT !.rows =
            [r \in 1..Len(tbl.rows) |->
                [j \in 1..Len(tbl.cols) |-> AsFloat(tbl.rows[r][j])]]]
    ELSE tbl

-----------------------------------------------------------------------------
(* Inputs *)

tDay == Str(<<"0","1","-","0","2">>)
tTea == Str(<<"T","e","a">>)
tAbc == Str(<<"a","b","c">>)
tTwelve == Str(<<"1","2">>)
tMinusFive == Str(<<"-","5">>)
\* 12 behind a NO-BREAK SPACE
tSpacedTwelve == Str(<<"U+00A0", "1", "2">>)

\* rows of three cells as st.data_editor can return them
RowPool ==
    { <<tDay, tTea, PyInt(5)>>,
      <<tDay, None, tAbc>>,
      <<None, None, None>>,
      <<NaN, tTea, tTwelve>>,
      <<tDay, tTea, tMinusFive>>,
      <<tDay, tTea, tSpacedTwelve>> }

RowLists == UNION { [1..n -> RowPool] : n \in 0..MaxRows }

\* lines of three fields of a file
CsvRowPool ==
    { <<<<"0","1","-","0","2">>, <<"T","e","a">>, <<"1","2">>>>,
      <<<<>>, <<"T","e","a">>, <<>>>>,
      <<<<"0","1","-","0","2">>, <<>>, <<"a","b","c">>>>,
      <<<<"0","1","-","0","2">>, <<"T","e","a">>, <<"T","r","U","e">>>>,
      <<<<>>, <<>>, <<"5">>>> }

CsvRowLists == UNION { [1..n -> CsvRowPool] : n \in 0..MaxRows }

CsvHeaders ==
    { <<cDate, cDescription, cAmount>>,
      <<<<" ","d","a","t","e">>, <<"D","E","S","C","R","I","P","T","I","O","N"," ">>, <<"A","M","O","U","N","T","\f">>>>,
      <<cDate, <<" ","N","O","T","É">>, cAmount>>,
      <<cDate, cDescription, <<"C","o","s","t">>>>,
      <<cDate, cAmount, <<" ","a","m","o","u","n","t">>>>,
      <<<<"C","a","t","e","g","o","r","y">>, cDescription, cAmount>> }

NoFile == [kind |-> "none", cols |-> <<>>, rows |-> <<>>]
BadFile == [kind |-> "bad", cols |-> <<>>, rows |-> <<>>]

\* files whose amount is a zero written with a minus sign, alone and above
\* a missing amount
SignedZeroBodies ==
    { << <<<<"0","1","-","0","2">>, <<"T","e","a">>, <<"-","0">>>> >>,
      << <<<<"0","1","-","0","2">>, <<"T","e","a">>, <<"-","0">>>>, <<<<"0","1","-","0","2">>, <<"T","e","a">>, <<>>>> >> }

\* the lines vary under the canonical header; the other headers come with
\* files of one line at most
Files ==
    {NoFile, BadFile}
    \cup { [kind |-> "ok", cols |-> <<cDate, cDescription, cAmount>>, rows |-> r] :
            r \in SignedZeroBodies }
    \cup { [kind |-> "ok", cols |-> <<cDate, cDescription, cAmount>>, rows |-> r] :
            r \in CsvRowLists }
    \cup { [kind |-> "ok", cols |-> h, rows |-> r] :
            h \in CsvHeaders, r \in {<<>>} \cup {<<l>> : l \in CsvRowPool} }

\* in hundredths
Budgets == {0, 25000}

\* response.text of a classification that returns
Texts ==
    { <<" ","F","o","o","d","\n">>,
      <<" ","\f">> }

\* response.text of an advice that returns
AdviceTexts == { <<" ","S","a","v","e",".","\n">> }

\* str(e) of a call that raises
Causes == { <<"t","i","m","e","o","u","t">> }

\* pd.DataFrame(columns=["Date", "Description", "Amount"])
EmptyFrame == [cols |-> <<cDate, cDescription, cAmount>>, rows |-> <<>>]

\* the fields pd.read_csv reads as a missing value
NaValues ==
    { <<>>, <<"#","N","/","A">>, <<"#","N","/","A"," ","N","/","A">>,
      <<"#","N","A">>, <<"-","1",".","#","I","N","D">>,
      <<"-","1",".","#","Q","N","A","N">>, <<"-","N","a","N">>,
      <<"-","n","a","n">>, <<"1",".","#","I","N","D">>,
      <<"1",".","#","Q","N","A","N">>, <<"<","N","A",">">>, <<"N","/","A">>,
      <<"N","A">>, <<"N","U","L","L">>, <<"N","a","N">>, <<"N","o","n","e">>,
      <<"n","/","a">>, <<"n","a","n">>, <<"n","u","l","l">> }

\* display_file_uploader: the columns of the table read
NormalizeColumns(cols) == [j \in 1..Len(cols) |-> NormalizeColumn(cols[j])]

\* the fields pd.read_csv reads as True and as False: the words in any
\* mixture of capital and small letters
ReadsTrue(t) == Lower(t) = <<"t","r","u","e">>

ReadsFalse(t) == Lower(t) = <<"f","a","l","s","e">>

\* pd.read_csv on the lines of a file: a column whose fields are all numbers
\* or missing is numeric, parsed as int64 (a zero has no sign, also when a
\* missing field then makes the column float64) when the numbers are all
\* whole and as float64 otherwise; a column whose fields are all True, False
\* or missing holds bools; any other column keeps its texts
ReadCsv(rows, n) ==
    LET given(j) == {rows[r][j] : r \in 1..Len(rows)} \ NaValues
        numeric(j) == \A t \in given(j) : Literal(t).ok
        whole(j) == \A t \in given(j) : Literal(t).whole
        boolean(j) == \A t \in given(j) : ReadsTrue(t) \/ ReadsFalse(t)
        cell(t, j) ==
            IF t \in NaValues THEN NaN
            ELSE IF numeric(j) /\ whole(j) THEN AsInt(ToNumeric(Str(t)))
            ELSE IF numeric(j) THEN ToNumeric(Str(t))
            ELSE IF boolean(j) THEN PyBool(ReadsTrue(t))
            ELSE Str(t)
    IN  Typed([r \in 1..Len(rows) |-> [j \in 1..n |-> cell(rows[r][j], j)]], n)

\* display_file_uploader, lines 46 to 50: the table a file is stored as
Uploaded(file) ==
    [cols |-> NormalizeColumns(file.cols), rows |-> ReadCsv(file.rows, Len(file.cols))]

\* st.session_state as an earlier rerun of the script left it
Sessions ==
    { [has |-> FALSE, data |-> EmptyFrame] }
    \cup { [has |-> TRUE, data |-> Uploaded([kind |-> "ok", cols |-> h, rows |-> <<r>>])] :
            h \in {<<cDate, cDescription, cAmount>>},
            r \in {<<<<"0","1","-","0","2">>, <<"T","e","a">>, <<"1","2">>>>, <<<<"0","1","-","0","2">>, <<>>, <<"a","b","c">>>>} }

-----------------------------------------------------------------------------
(* Initial state: the App is constructed, run() has done set_env and the title *)

Init ==
    /\ pc = "budget"
    /\ budget = 0
    /\ csv \in Files
    /\ session \in Sessions
    /\ input = EmptyFrame
    /\ data = EmptyFrame
    /\ i = 0
    /\ categories = <<>>
    /\ calls = <<>>
    /\ summary = <<>>
    /\ ui = <<>>

\* get_budget_input
GetBudgetInput ==
    /\ pc = "budget"
    /\ \E b \in Budgets : budget' = b
    /\ pc' = "uploader"
    /\ UNCHANGED <<csv, session, input, data, i, categories, calls, summary, ui>>

\* display_file_uploader
DisplayFileUploader ==
    /\ pc = "uploader"
    /\ \/ /\ csv.kind = "none"
          /\ UNCHANGED <<session, ui>>
       \/ /\ csv.kind = "ok"
          /\ session' = [has |-> TRUE, data |-> Uploaded(csv)]
          /\ UNCHANGED ui
       \/ /\ csv.kind = "bad"
          /\ ui' = Append(ui, "upload_error")
          /\ UNCHANGED session
    /\ pc' = "table"
    /\ UNCHANGED <<budget, csv, input, data, i, categories, calls, summary>>

\* display_table, lines 57 to 62: the table handed to st.data_editor
Frame(s) == IF s.has THEN s.data ELSE EmptyFrame

\* the rows st.data_editor returns: rows typed into a table without rows; or
\* the rows as shown, with one row deleted, or with the last cell of one row
\* overtyped
Edited(rows) ==
    IF rows = <<>>
    THEN RowLists
    ELSE {rows}
         \cup { SubSeq(rows, 1, r - 1) \o SubSeq(rows, r + 1, Len(rows)) : r \in 1..Len(rows) }
         \cup { [rows EXCEPT ![r][Len(rows[r])] = tAbc] : r \in 1..Len(rows) }

\* st.data_editor refuses a table in which a column name is repeated
Repeated(cols) == \E j, k \in 1..Len(cols) : j # k /\ cols[j] = cols[k]

\* display_table up to st.data_editor
DisplayTable ==
    /\ pc = "table"
    /\ \/ /\ \E r \in Edited(Frame(session).rows) :
                data' = [cols |-> Frame(session).cols,
                         rows |-> Typed(r, Len(Frame(session).cols))]
          /\ pc' = "button"
          /\ UNCHANGED ui
       \/ /\ Repeated(Frame(session).cols)
          /\ ui' = Append(ui, "exception")
          /\ pc' = "done"
          /\ UNCHANGED data
    /\ input' = data'
    /\ UNCHANGED <<budget, csv, session, i, categories, calls, summary>>

\* edited_data.isnull().all().all()
AllNull(tbl) ==
    \A r \in 1..Len(tbl.rows) : \A j \in 1..Len(tbl.cols) : ~NotNull(tbl.rows[r][j])

\* edited_data.empty
Empty(tbl) == Len(tbl.rows) = 0 \/ Len(tbl.cols) = 0

\* a variant of Guard: the null test is left out
GuardNotEmpty(tbl) == ~Empty(tbl)

\* not edited_data.empty and not edited_data.isnull().all().all()
Guard(tbl) == ~Empty(tbl) /\ ~AllNull(tbl)

\* the page is rendered and the button is not pressed
ButtonIdle ==
    /\ pc = "button"
    /\ pc' = "done"
    /\ UNCHANGED <<budget, csv, session, input, data, i, categories, calls, summary, ui>>

\* the button is pressed on a table the guard refuses
ButtonWarn ==
    /\ pc = "button"
    /\ ~Guard(data)
    /\ ui' = Append(ui, "warning")
    /\ pc' = "done"
    /\ UNCHANGED <<budget, csv, session, input, data, i, categories, calls, summary>>

\* the button is pressed; categorize_expenses starts: the columns are renamed
ButtonCategorize ==
    /\ pc = "button"
    /\ Guard(data)
    /\ data' = [data EXCEPT !.cols = [j \in 1..Len(data.cols) |-> StripLower(data.cols[j])]]
    /\ categories' = <<>>
    /\ i' = 1
    /\ pc' = "loop"
    /\ UNCHANGED <<budget, csv, session, input, calls, summary, ui>>

\* a variant of Description: a null description is rendered as the empty text
DescriptionBlankWhenNull(tbl, r) ==
    IF HasCol(tbl.cols, kDescription) /\ NotNull(Cell(tbl, r, kDescription))
    THEN PyStr(Cell(tbl, r, kDescription))
    ELSE <<>>

\* row.get('description', '')
Description(tbl, r) ==
    IF HasCol(tbl.cols, kDescription)
    THEN PyStr(Cell(tbl, r, kDescription))
    ELSE <<>>

\* the two values the prompt of a row is formatted from
Prompt(tbl, r) ==
    [description |-> Description(Iterrows(tbl), r),
     amount |-> PyStr(Cell(Iterrows(tbl), r, kAmount))]

\* a variant of ResponseCategory: the text is not stripped
ResponseCategoryRaw(text) == text

\* response.text.strip()
ResponseCategory(text) == Strip(text)

\* f"Error: {e}"
ErrorCategory(e) == ErrorPrefix \o e

\* a variant of AppendCategory: the category is put in front
PrependCategory(cats, category) == <<category>> \o cats

\* categories.append(category)
AppendCategory(cats, category) == Append(cats, category)

\* one record of the history of calls
ClassifyCall(r, prompt, ok, reply) ==
    [kind |-> "classify", row |-> r, prompt |-> prompt, ok |-> ok, reply |-> reply]

\* row["amount"] of a table without that column: KeyError, caught in display_table
RowKeyError ==
    /\ pc = "loop"
    /\ i <= Len(data.rows)
    /\ ~HasCol(data.cols, kAmount)
    /\ ui' = Append(ui, "error")
    /\ pc' = "done"
    /\ UNCHANGED <<budget, csv, session, input, data, i, categories, calls, summary>>

\* row["amount"] of a table with several such columns is a Series, and the
\* truth value of pd.notnull of it a ValueError, caught in display_table
RowValueError ==
    /\ pc = "loop"
    /\ i <= Len(data.rows)
    /\ HasCol(data.cols, kAmount)
    /\ Cell(data, i, kAmount) = Series
    /\ ui' = Append(ui, "error")
    /\ pc' = "done"
    /\ UNCHANGED <<budget, csv, session, input, data, i, categories, calls, summary>>

\* the row of the loop has one amount
RowHasAmount ==
    /\ pc = "loop"
    /\ i <= Len(data.rows)
    /\ HasCol(data.cols, kAmount)
    /\ Cell(data, i, kAmount) # Series

\* a row whose amount is null
RowUncategorized ==
    /\ RowHasAmount
    /\ ~NotNull(Cell(data, i, kAmount))
    /\ categories' = AppendCategory(categories, Uncategorized)
    /\ i' = i + 1
    /\ UNCHANGED <<pc, budget, csv, session, input, data, calls, summary, ui>>

\* a row whose amount is not null, and the call returns
RowClassified ==
    /\ RowHasAmount
    /\ NotNull(Cell(data, i, kAmount))
    /\ \E text \in Texts :
          /\ calls' = Append(calls, ClassifyCall(i, Prompt(data, i), TRUE, text))
          /\ categories' = AppendCategory(categories, ResponseCategory(text))
    /\ i' = i + 1
    /\ UNCHANGED <<pc, budget, csv, session, input, data, summary, ui>>

\* a row whose amount is not null, and the call raises
RowServiceError ==
    /\ RowHasAmount
    /\ NotNull(Cell(data, i, kAmount))
    /\ \E e \in Causes :
          /\ calls' = Append(calls, ClassifyCall(i, Prompt(data, i), FALSE, e))
          /\ categories' = AppendCategory(categories, ErrorCategory(e))
    /\ i' = i + 1
    /\ UNCHANGED <<pc, budget, csv, session, input, data, summary, ui>>

\* data["category"] = categories: the column is set when the table has it,
\* and added as the last column when not
WithCategory(tbl, cats) ==
    IF HasCol(tbl.cols, kCategory)
    THEN [tbl EXCEPT !.rows =
            [r \in 1..Len(tbl.rows) |->
                [tbl.rows[r] EXCEPT ![ColIndex(tbl.cols, kCategory)] = Str(cats[r])]]]
    ELSE [cols |-> Append(tbl.cols, kCategory),
          rows |-> [r \in 1..Len(tbl.rows) |-> Append(tbl.rows[r], Str(cats[r]))]]

\* the loop is over: the column is set, the table returned and written
CategorizeReturn ==
    /\ pc = "loop"
    /\ i > Len(data.rows)
    /\ data' = WithCategory(data, categories)
    /\ ui' = Append(ui, "table")
    /\ pc' = "graphs"
    /\ UNCHANGED <<budget, csv, session, input, i, categories, calls, summary>>

\* pd.to_numeric on a column: a bool beside anything but bools is a number
AsNumber(x, bools) ==
    IF x.kind = "bool" /\ ~bools THEN [x EXCEPT !.kind = "int"] ELSE x

\* data["amount"] = pd.to_numeric(data["amount"], errors='coerce')
CoerceAmount(tbl) ==
    [tbl EXCEPT !.rows =
        Typed([r \in 1..Len(tbl.rows) |->
                  [tbl.rows[r] EXCEPT ![ColIndex(tbl.cols, kAmount)] =
                      AsNumber(ToNumeric(@),
                               \A q \in 1..Len(tbl.rows) :
                                  Cell(tbl, q, kAmount).kind = "bool")]],
              Len(tbl.cols))]

RECURSIVE SumRows(_, _, _)
\* the sum of the amounts of rows 1..n whose category is c
SumRows(tbl, c, n) ==
    IF n = 0 THEN 0
    ELSE SumRows(tbl, c, n - 1)
         + (IF Cell(tbl, n, kCategory).str = c THEN SumValue(Cell(tbl, n, kAmount)) ELSE 0)

\* a variant of GroupSum: the rows without a category of the service are left out
GroupSumSkipsUncategorized(tbl) ==
    [c \in {Cell(tbl, r, kCategory).str : r \in 1..Len(tbl.rows)} \ {Uncategorized} |->
        SumRows(tbl, c, Len(tbl.rows))]

\* data.groupby("category")["amount"].sum()
GroupSum(tbl) ==
    [c \in {Cell(tbl, r, kCategory).str : r \in 1..Len(tbl.rows)} |->
        SumRows(tbl, c, Len(tbl.rows))]

RECURSIVE SumAmounts(_, _)
\* the sum of the coerced amounts of rows 1..n
SumAmounts(tbl, n) ==
    IF n = 0 THEN 0
    ELSE SumAmounts(tbl, n - 1) + SumValue(ToNumeric(Cell(tbl, n, kAmount)))

\* pd.to_numeric(data['amount'], errors='coerce').sum()
TotalExpenditure(tbl) == SumAmounts(tbl, Len(tbl.rows))

\* plt.pie raises a ValueError on a negative wedge size, and on sizes whose
\* sum is zero (the fractions are NaN then)
PieRaises(sums) ==
    \/ \E c \in DOMAIN sums : sums[c] < 0
    \/ \A c \in DOMAIN sums : sums[c] = 0

\* display_graphs: the bar chart and the pie chart are drawn
DisplayGraphs ==
    /\ pc = "graphs"
    /\ ~PieRaises(GroupSum(CoerceAmount(data)))
    /\ data' = CoerceAmount(data)
    /\ summary' = GroupSum(CoerceAmount(data))
    /\ ui' = ui \o <<"bar", "pie">>
    /\ pc' = "advice"
    /\ UNCHANGED <<budget, csv, session, input, i, categories, calls>>

\* display_graphs: the bar chart is drawn and plt.pie raises; the exception is
\* caught in display_table, and display_financial_advice is not reached
DisplayGraphsError ==
    /\ pc = "graphs"
    /\ PieRaises(GroupSum(CoerceAmount(data)))
    /\ data' = CoerceAmount(data)
    /\ summary' = GroupSum(CoerceAmount(data))
    /\ ui' = ui \o <<"bar", "error">>
    /\ pc' = "done"
    /\ UNCHANGED <<budget, csv, session, input, i, categories, calls>>

\* the values the advice prompt is formatted from
AdvicePrompt(tbl) ==
    [budget |-> budget,
     total_expenditure |-> TotalExpenditure(tbl),
     expense_breakdown |-> GroupSum(tbl)]

AdviceCall(prompt, ok, reply) ==
    [kind |-> "advice", row |-> 0, prompt |-> prompt, ok |-> ok, reply |-> reply]

\* display_financial_advice, the call returns
AdviceShown ==
    /\ pc = "advice"
    /\ \E text \in AdviceTexts :
          calls' = Append(calls, AdviceCall(AdvicePrompt(data), TRUE, text))
    /\ ui' = Append(ui, "advice")
    /\ pc' = "done"
    /\ UNCHANGED <<budget, csv, session, input, data, i, categories, summary>>

\* a variant of AdviceError: the exception is not caught in
\* display_financial_advice and reaches the handler of display_table
AdviceErrorPropagates ==
    /\ pc = "advice"
    /\ \E e \in Causes :
          calls' = Append(calls, AdviceCall(AdvicePrompt(data), FALSE, e))
    /\ ui' = Append(ui, "error")
    /\ pc' = "done"
    /\ UNCHANGED <<budget, csv, session, input, data, i, categories, summary>>

\* display_financial_advice, the call raises
AdviceError ==
    /\ pc = "advice"
    /\ \E e \in Causes :
          calls' = Append(calls, AdviceCall(AdvicePrompt(data), FALSE, e))
    /\ ui' = Append(ui, "advice_error")
    /\ pc' = "done"
    /\ UNCHANGED <<budget, csv, session, input, data, i, categories, summary>>

Next ==
    \/ GetBudgetInput
    \/ DisplayFileUploader
    \/ DisplayTable
    \/ ButtonIdle
    \/ ButtonWarn
    \/ ButtonCategorize
    \/ RowKeyError
    \/ RowValueError
    \/ RowUncategorized
    \/ RowClassified
    \/ RowServiceError
    \/ CategorizeReturn
    \/ DisplayGraphs
    \/ DisplayGraphsError
    \/ AdviceShown
    \/ AdviceError

Spec == Init /\ [][Next]_vars

-----------------------------------------------------------------------------
(* Vocabulary of the properties.  It reads the histories and is written    *)
(* without the operators of the program (Strip, Lower, PyStr, ToNumeric,   *)
(* GroupSum): a property that shared them would follow the program         *)
(* wherever it goes.                                                       *)

Written(what) == \E k \in 1..Len(ui) : ui[k] = what

\* categorize_expenses has returned: the categorized table was written
Returned == Written("table")

\* categorize_expenses was entered and the table has one amount column
Looping == i >= 1 /\ Cardinality({j \in 1..Len(data.cols) : data.cols[j] = kAmount}) = 1

\* the amount and the description of row r as the user handed them in
InAmount(r) == input.rows[r][ColIndex(data.cols, kAmount)]

InDescription(r) == input.rows[r][ColIndex(data.cols, kDescription)]

CategoryAt(r) == data.rows[r][ColIndex(data.cols, kCategory)].str

\* a missing value
IsNull(x) == x = NaN \/ x = None

ClassifyIdx == {k \in 1..Len(calls) : calls[k].kind = "classify"}

AdviceIdx == {k \in 1..Len(calls) : calls[k].kind = "advice"}

CallsOfRow(r) == {k \in ClassifyIdx : calls[k].row = r}

IsSpace(c) ==
    c \in
    {"\t", "\n", "U+000B", "\f", "\r", "U+001C", "U+001D", "U+001E",
     "U+001F", " ", "U+0085", "U+00A0", "U+1680", "U+2000", "U+2001",
     "U+2002", "U+2003", "U+2004", "U+2005", "U+2006", "U+2007", "U+2008",
     "U+2009", "U+200A", "U+2028", "U+2029", "U+202F", "U+205F", "U+3000"}

Blank(t) == \A k \in 1..Len(t) : IsSpace(t[k])

\* the positions of t that hold no white space
Ink(t) == {k \in 1..Len(t) : ~IsSpace(t[k])}

\* t from its first to its last character that is no white space
Core(t) ==
    IF Ink(t) = {} THEN <<>>
    ELSE SubSeq(t, CHOOSE k \in Ink(t) : \A m \in Ink(t) : k <= m,
                   CHOOSE k \in Ink(t) : \A m \in Ink(t) : k >= m)

\* c is t without its leading and trailing white space
TrimmedOf(c, t) == c = Core(t)

\* l is c with every capital letter replaced by its small letter
LoweredOf(l, c) ==
    /\ Len(l) = Len(c)
    /\ \A k \in 1..Len(c) :
          IF \E q \in 1..Len(UpperCase) : UpperCase[q] = c[k]
          THEN \E q \in 1..Len(UpperCase) : UpperCase[q] = c[k] /\ LowerCase[q] = l[k]
          ELSE l[k] = c[k]

\* key is the name raw, trimmed and lower-cased
AliasOf(raw, key) == LoweredOf(key, Core(raw))

ErrorToken(cause) == <<"E","r","r","o","r",":"," ">> \o cause

\* the number, in hundredths, an amount counts for in a sum
Worth(x) ==
    CASE x.kind \in {"int", "float"} -> x.num
      [] x = PyBool(TRUE)            -> 100
      [] x = tTwelve                 -> 1200
      [] x = tMinusFive              -> -500
      [] x = Str(<<"5">>)               -> 500
      [] OTHER                       -> 0

\* an amount that is a number, or a text that reads as one
Numeric(x) ==
    x.kind \in {"int", "float"} \/ x \in {tTwelve, tMinusFive, Str(<<"5">>), Str(<<"-","0">>)}

\* every cell handed in is a number or NaN, and not all of them are whole
\* numbers: the rows are read as rows of floats
RowsOfFloats ==
    /\ \A r \in 1..Len(input.rows) : \A j \in 1..Len(input.rows[r]) :
          input.rows[r][j].kind \in {"int", "float", "nan"}
    /\ \E r \in 1..Len(input.rows) : \E j \in 1..Len(input.rows[r]) :
          input.rows[r][j].kind \in {"float", "nan"}

\* the text of an amount in a prompt
AmountText(x) ==
    CASE x = PyInt(5)      -> IF RowsOfFloats THEN <<"5",".","0">> ELSE <<"5">>
      [] x = PyInt(0)      -> IF RowsOfFloats THEN <<"0",".","0">> ELSE <<"0">>
      [] x = PyFloat(0)    -> <<"0",".","0">>
      [] x = PyFloat(500)  -> <<"5",".","0">>
      [] x = PyInt(12)     -> IF RowsOfFloats THEN <<"1","2",".","0">> ELSE <<"1","2">>
      [] x = PyFloat(1200) -> <<"1","2",".","0">>
      [] x = PyBool(TRUE)  -> <<"T","r","u","e">>
      [] x = PyBool(FALSE) -> <<"F","a","l","s","e">>
      [] OTHER             -> x.str

\* the text of a description in a prompt
DescriptionText(x) ==
    CASE x = NaN  -> <<"n","a","n">>
      [] x = None -> <<"N","o","n","e">>
      [] OTHER    -> x.str

\* c is the category the outcome of row r gives
ComputedFor(r, c) ==
    \/ CallsOfRow(r) = {} /\ c = <<"U","n","c","a","t","e","g","o","r","i","z","e","d">>
    \/ \E k \in CallsOfRow(r) : calls[k].ok /\ TrimmedOf(c, calls[k].reply)
    \/ \E k \in CallsOfRow(r) : ~calls[k].ok /\ c = ErrorToken(calls[k].reply)

RECURSIVE WorthOf(_, _)
\* the sum of the amounts handed in of rows 1..n whose category is c
WorthOf(c, n) ==
    IF n = 0 THEN 0
    ELSE WorthOf(c, n - 1) + (IF CategoryAt(n) = c THEN Worth(InAmount(n)) ELSE 0)

RECURSIVE WorthAll(_)
WorthAll(n) == IF n = 0 THEN 0 ELSE WorthAll(n - 1) + Worth(InAmount(n))

RECURSIVE SumOfValues(_, _)
SumOfValues(f, S) ==
    IF S = {} THEN 0
    ELSE LET c == CHOOSE x \in S : TRUE IN f[c] + SumOfValues(f, S \ {c})

ClassifySeq == SelectSeq(calls, LAMBDA c : c.kind = "classify")

-----------------------------------------------------------------------------
(* C1 *)

\* C1: whenever categorize_expenses returns, the table has as many rows as
\* the table handed in, one category column with one text per row, the other
\* cells of row r are those of row r handed in, and the category of row r is
\* the one the outcome of row r gives (no call: Uncategorized; a call that
\* returned: its trimmed text; a call that raised: the error token).
C1_RowsKeepCountAndOrder ==
    Returned =>
        /\ Len(data.rows) = Len(input.rows)
        /\ Cardinality({j \in 1..Len(data.cols) : data.cols[j] = kCategory}) = 1
        /\ \A r \in 1..Len(input.rows) :
              /\ Len(data.rows[r]) = Len(data.cols)
              /\ Len(data.rows[r]) \in {Len(input.rows[r]), Len(input.rows[r]) + 1}
              /\ \A j \in 1..Len(input.rows[r]) :
                    (j # ColIndex(data.cols, kAmount) /\ j # ColIndex(data.cols, kCategory))
                        => data.rows[r][j] = input.rows[r][j]
              /\ data.rows[r][ColIndex(data.cols, kCategory)].kind = "str"
              /\ ComputedFor(r, CategoryAt(r))

\* two rows, the first with an unparsable amount whose call raised, the second
\* with a missing amount
C1_Witness ==
    /\ Returned
    /\ Len(data.rows) = 2
    /\ InAmount(1) = tAbc
    /\ \E k \in CallsOfRow(1) : ~calls[k].ok
    /\ InAmount(2) = NaN
    /\ CategoryAt(1) # CategoryAt(2)

-----------------------------------------------------------------------------
(* C2 *)

\* C2 as stated: every row whose amount is missing or an unparsable text is
\* categorized Uncategorized and no call is made for it.
C2_UnparsableUncategorized ==
    Returned =>
        \A r \in 1..Len(input.rows) :
            (IsNull(InAmount(r)) \/ InAmount(r) = tAbc) =>
                /\ CategoryAt(r) = Uncategorized
                /\ CallsOfRow(r) = {}

\* C2, amended: every row whose amount is null is categorized Uncategorized
\* whatever its description, and no call is ever made for it; a row whose
\* amount is a text that is no number is not null: one call is made for it,
\* with that text as the amount, and its category is the outcome of the call.
C2_NullUncategorized ==
    Looping =>
        \A r \in 1..Len(input.rows) :
            /\ IsNull(InAmount(r)) =>
                  /\ CallsOfRow(r) = {}
                  /\ Returned => CategoryAt(r) = <<"U","n","c","a","t","e","g","o","r","i","z","e","d">>
            /\ (InAmount(r) = tAbc /\ Returned) =>
                  /\ Cardinality(CallsOfRow(r)) = 1
                  /\ \A k \in CallsOfRow(r) : calls[k].prompt.amount = <<"a","b","c">>
                  /\ ComputedFor(r, CategoryAt(r))

\* a null amount beside a description, and an unparsable amount whose call returned
C2_Witness ==
    /\ Returned
    /\ HasCol(data.cols, kDescription)
    /\ \E r \in 1..Len(input.rows) :
          InAmount(r) = NaN /\ InDescription(r) = tTea /\ CategoryAt(r) = Uncategorized
    /\ \E r \in 1..Len(input.rows) :
          InAmount(r) = tAbc /\ \E k \in CallsOfRow(r) : calls[k].ok

-----------------------------------------------------------------------------
(* C3 *)

\* C3: a row whose call raised carries the error token of that cause, every
\* other row carries what its own outcome gives, the table returned is the
\* whole table, and once the run is over the table and both charts were
\* written and the advice request was sent with the total and the breakdown
\* of all rows, the rows of the error token among them.
C3_FailureIsPerRow ==
    (\E k \in ClassifyIdx : ~calls[k].ok) =>
        /\ Returned =>
              /\ Len(data.rows) = Len(input.rows)
              /\ \A r \in 1..Len(input.rows) :
                    /\ (\E k \in CallsOfRow(r) : ~calls[k].ok) =>
                          \E k \in CallsOfRow(r) : CategoryAt(r) = ErrorToken(calls[k].reply)
                    /\ (\A k \in CallsOfRow(r) : calls[k].ok) =>
                          ComputedFor(r, CategoryAt(r))
        /\ pc = "done" =>
              /\ Returned
              /\ Written("bar") /\ Written("pie")
              /\ DOMAIN summary = {CategoryAt(r) : r \in 1..Len(input.rows)}
              /\ \E k \in AdviceIdx :
                    /\ calls[k].prompt.total_expenditure = WorthAll(Len(input.rows))
                    /\ DOMAIN calls[k].prompt.expense_breakdown
                          = {CategoryAt(r) : r \in 1..Len(input.rows)}

-----------------------------------------------------------------------------
(* C4 *)

NoCell(tbl) ==
    \A r \in 1..Len(tbl.rows) : \A j \in 1..Len(tbl.rows[r]) : IsNull(tbl.rows[r][j])

\* C4: on a table without rows or with null cells only, the run makes no
\* call, writes no table, chart, advice or error, and computes no category
\* and no summary; the warning is written on such a table only, and ends the
\* run.
C4_GuardRefuses ==
    /\ (Len(input.rows) = 0 \/ NoCell(input)) =>
          /\ calls = <<>>
          /\ \A k \in 1..Len(ui) :
                ui[k] \notin {"table", "bar", "pie", "advice", "advice_error", "error"}
          /\ categories = <<>>
          /\ DOMAIN summary = {}
          /\ i = 0
    /\ Written("warning") =>
          /\ Len(input.rows) = 0 \/ NoCell(input)
          /\ pc = "done"
          /\ ui[Len(ui)] = "warning"

\* the warning was written on a table of two rows of null cells
C4_Witness ==
    /\ Written("warning")
    /\ Len(input.rows) = 2
    /\ NoCell(input)

\* the warning was written on an uploaded table whose one row was deleted
C4_WitnessDeleted ==
    /\ Written("warning")
    /\ Len(csv.rows) = 1
    /\ Len(input.rows) = 0

-----------------------------------------------------------------------------
(* C5 *)

\* C5: once the bar chart is drawn the summary has exactly the categories of
\* the rows as its keys, each with the sum of the amounts (a missing or
\* unparsable one counting 0, a bool True counting 1) of the rows of that
\* category; the advice prompt carries the same breakdown, and its total is
\* the sum of the values of the summary.
C5_SummaryIsSumPerCategory ==
    Written("bar") =>
        /\ DOMAIN summary = {CategoryAt(r) : r \in 1..Len(input.rows)}
        /\ \A c \in DOMAIN summary : summary[c] = WorthOf(c, Len(input.rows))
        /\ \A k \in AdviceIdx :
              /\ calls[k].prompt.expense_breakdown = summary
              /\ calls[k].prompt.total_expenditure = SumOfValues(summary, DOMAIN summary)
              /\ calls[k].prompt.total_expenditure = WorthAll(Len(input.rows))

\* the advice was asked for a table of an error token worth 12 and an
\* Uncategorized row
C5_Witness ==
    /\ AdviceIdx # {}
    /\ Uncategorized \in DOMAIN summary
    /\ \E c \in DOMAIN summary :
          /\ c = ErrorToken(<<"t","i","m","e","o","u","t">>)
          /\ summary[c] = 1200
    /\ \E k \in AdviceIdx : calls[k].prompt.total_expenditure = 1200

\* the advice was asked for the texts -5 and 12, which count -5 and 12
C5_WitnessSigned ==
    /\ AdviceIdx # {}
    /\ Len(input.rows) = 2
    /\ InAmount(1) = tMinusFive
    /\ InAmount(2) = tTwelve
    /\ \E k \in AdviceIdx : calls[k].prompt.total_expenditure = 700

\* the advice was asked for 5 and for 12 behind a NO-BREAK SPACE, which is
\* no number and counts 0
C5_WitnessSpaced ==
    /\ AdviceIdx # {}
    /\ Len(input.rows) = 2
    /\ InAmount(1) = PyInt(5)
    /\ InAmount(2) = Str(<<"U+00A0", "1", "2">>)
    /\ \E k \in AdviceIdx : calls[k].prompt.total_expenditure = 500

\* the advice was asked for a file whose one amount is TrUe, which is read
\* as True and counts 1
C5_WitnessBool ==
    /\ AdviceIdx # {}
    /\ Len(input.rows) = 1
    /\ InAmount(1) = PyBool(TRUE)
    /\ \E k \in ClassifyIdx : calls[k].prompt.amount = <<"T","r","u","e">>
    /\ \E k \in AdviceIdx : calls[k].prompt.total_expenditure = 100

-----------------------------------------------------------------------------
(* C6 *)

\* C6: a run of the categorize action that passed the guard, in which
\* categorize_expenses returned and which is over, has sent the advice
\* request exactly once, as its last call.
C6_AdviceInEveryRun ==
    (pc = "done" /\ Returned) =>
        /\ Cardinality(AdviceIdx) = 1
        /\ calls[Len(calls)].kind = "advice"

-----------------------------------------------------------------------------
(* C7 *)

\* C7 as stated: as many requests as rows with a numeric amount, one each,
\* in the order of the rows, each with the description of its row (the empty
\* text when there is none) and its amount.
C7_OneRequestPerNumericRow ==
    Returned =>
        /\ Len(ClassifySeq) = Cardinality({r \in 1..Len(input.rows) : Numeric(InAmount(r))})
        /\ \A k \in ClassifyIdx :
              calls[k].prompt.description =
                  IF HasCol(data.cols, kDescription) /\ ~IsNull(InDescription(calls[k].row))
                  THEN InDescription(calls[k].row).str
                  ELSE <<>>

\* C7, amended: at every point of the loop and after it, each row already
\* dealt with whose amount is not null (a number, or a text such as "abc")
\* has exactly one request, whether it returned or raised, and no other row
\* has any; the requests are in the order of the rows; each carries the
\* amount of its row as str() prints it (a whole number of a table whose
\* columns are all numeric and not all whole is printed as a float) and its
\* description: the empty text when the table has no description column, the
\* text nan or None when the cell is null.
C7_OneRequestPerNonNullRow ==
    Looping =>
        /\ \A r \in 1..Len(input.rows) :
              Cardinality(CallsOfRow(r)) = IF r < i /\ ~IsNull(InAmount(r)) THEN 1 ELSE 0
        /\ \A a, b \in 1..Len(ClassifySeq) : a < b => ClassifySeq[a].row < ClassifySeq[b].row
        /\ \A k \in ClassifyIdx :
              /\ calls[k].row \in 1..Len(input.rows)
              /\ calls[k].prompt.amount = AmountText(InAmount(calls[k].row))
              /\ calls[k].prompt.description =
                    IF ~HasCol(data.cols, kDescription) THEN <<>>
                    ELSE DescriptionText(InDescription(calls[k].row))

\* two requests: a raised one for a row without description cell, a returned
\* one for a described row
C7_Witness ==
    /\ Returned
    /\ Len(ClassifySeq) = 2
    /\ ~ClassifySeq[1].ok
    /\ ClassifySeq[1].prompt.description = <<"N","o","n","e">>
    /\ ClassifySeq[1].prompt.amount = <<"a","b","c">>
    /\ ClassifySeq[2].ok
    /\ ClassifySeq[2].prompt.description = <<"T","e","a">>
    /\ ClassifySeq[2].prompt.amount = <<"5">>

\* a request of a table without description column
C7_WitnessNoColumn ==
    /\ Returned
    /\ ~HasCol(data.cols, kDescription)
    /\ \E k \in ClassifyIdx : calls[k].prompt.description = <<>>

\* a request of a file in which 12 stands beside a missing amount
C7_WitnessFloat ==
    /\ Returned
    /\ Len(input.rows) = 2
    /\ IsNull(InAmount(2))
    /\ \E k \in CallsOfRow(1) : calls[k].prompt.amount = <<"1","2",".","0">>

\* a request of a file whose one line is ,,5: every column is numeric, the
\* row is read as floats and 5 is printed 5.0
C7_WitnessUpcast ==
    /\ Returned
    /\ csv.kind = "ok"
    /\ Len(input.rows) = 1
    /\ InAmount(1) = PyInt(5)
    /\ \E k \in CallsOfRow(1) :
          calls[k].prompt.amount = <<"5",".","0">> /\ calls[k].prompt.description = <<"n","a","n">>

\* a request of a file in which -0 stands above a missing amount: the zero is
\* read as a whole number, without its sign, and printed 0.0
C7_WitnessSignedZero ==
    /\ Returned
    /\ csv.kind = "ok"
    /\ Len(csv.rows) = 2
    /\ Len(input.rows) = 2
    /\ csv.rows[1][3] = <<"-","0">>
    /\ InAmount(1) = PyFloat(0)
    /\ InAmount(2) = NaN
    /\ \E k \in CallsOfRow(1) : calls[k].prompt.amount = <<"0",".","0">>

\* a request of a file in which the description of a row is missing
C7_WitnessNan ==
    /\ Returned
    /\ csv.kind = "ok"
    /\ \E k \in ClassifyIdx :
          calls[k].prompt.description = <<"n","a","n">> /\ calls[k].prompt.amount = <<"a","b","c">>

-----------------------------------------------------------------------------
(* C8 *)

\* C8: when the advice call raised, the run is over in the ordinary way, the
\* request was sent once, the page shows the table, the two charts and then
\* the message of the advice error, and the handler of display_table was
\* not reached.
C8_AdviceFailureIsShown ==
    (\E k \in AdviceIdx : ~calls[k].ok) =>
        /\ pc = "done"
        /\ Cardinality(AdviceIdx) = 1
        /\ Len(ui) >= 4
        /\ SubSeq(ui, Len(ui) - 3, Len(ui)) = <<"table", "bar", "pie", "advice_error">>
        /\ ~Written("error")
        /\ ~Written("advice")
        /\ Returned

\* the advice call raised after a classification call returned
C8_Witness ==
    /\ \E k \in AdviceIdx : ~calls[k].ok
    /\ \E k \in ClassifyIdx : calls[k].ok
    /\ Written("advice_error")

-----------------------------------------------------------------------------
(* C9 *)

\* C9 as stated: every category is not blank and is the trimmed text of the
\* service, an error token or Uncategorized.
C9_CategoryNeverBlank ==
    Returned =>
        \A r \in 1..Len(input.rows) :
            /\ ~Blank(CategoryAt(r))
            /\ ComputedFor(r, CategoryAt(r))

\* C9, amended: every row has one category text, which is Uncategorized when
\* the amount is null, the trimmed text of its one call when the call
\* returned, and the error token when it raised; it is blank exactly when
\* the call returned white space only.
C9_CategoryIsOutcome ==
    Returned =>
        \A r \in 1..Len(input.rows) :
            /\ data.rows[r][ColIndex(data.cols, kCategory)].kind = "str"
            /\ Cardinality(CallsOfRow(r)) <= 1
            /\ \/ /\ IsNull(InAmount(r))
                  /\ CallsOfRow(r) = {}
                  /\ CategoryAt(r) = <<"U","n","c","a","t","e","g","o","r","i","z","e","d">>
               \/ /\ ~IsNull(InAmount(r))
                  /\ \E k \in CallsOfRow(r) :
                        /\ calls[k].ok
                        /\ TrimmedOf(CategoryAt(r), calls[k].reply)
               \/ /\ ~IsNull(InAmount(r))
                  /\ \E k \in CallsOfRow(r) :
                        /\ ~calls[k].ok
                        /\ CategoryAt(r) = ErrorToken(calls[k].reply)
            /\ Blank(CategoryAt(r)) <=> \E k \in CallsOfRow(r) : calls[k].ok /\ Blank(calls[k].reply)

\* a blank category, of a reply of a space and a form feed, beside a trimmed one
C9_Witness ==
    /\ Returned
    /\ \E r \in 1..Len(input.rows) :
          /\ CategoryAt(r) = <<>>
          /\ \E k \in CallsOfRow(r) : calls[k].reply = <<" ","\f">>
    /\ \E r \in 1..Len(input.rows) :
          /\ CategoryAt(r) = <<"F","o","o","d">>
          /\ \E k \in CallsOfRow(r) : calls[k].reply = <<" ","F","o","o","d","\n">>

-----------------------------------------------------------------------------
(* C10 *)

Canonical(key) ==
    CASE key = <<"d","a","t","e">> -> <<"D","a","t","e">>
      [] key = <<"d","e","s","c","r","i","p","t","i","o","n">> -> <<"D","e","s","c","r","i","p","t","i","o","n">>
      [] key = <<"a","m","o","u","n","t">> -> <<"A","m","o","u","n","t">>

Known == {<<"d","a","t","e">>, <<"d","e","s","c","r","i","p","t","i","o","n">>, <<"a","m","o","u","n","t">>}

\* the whole number, in hundredths, the field t spells
Spelled(t, h) ==
    (t = <<"1","2">> /\ h = 1200) \/ (t = <<"5">> /\ h = 500) \/ (t = <<"-","0">> /\ h = 0)

\* the cell c holds what the field t of the file says: a text is the field,
\* NaN the empty field, a number the number spelled, a bool the word true or
\* false in any mixture of capital and small letters
FieldOf(c, t) ==
    CASE c.kind = "str"   -> c.str = t
      [] c.kind = "nan"   -> t = <<>>
      [] c.kind = "int"   -> Spelled(t, c.num) /\ c.str = <<>>
      [] c.kind = "float" -> Spelled(t, c.num) /\ c.str = <<>>
      [] c.kind = "bool"  -> \/ c.num = 100 /\ LoweredOf(<<"t","r","u","e">>, t)
                             \/ c.num = 0 /\ LoweredOf(<<"f","a","l","s","e">>, t)
      [] OTHER            -> FALSE

\* the rows stored are the lines of the file
RowsOfFile ==
    /\ Len(session.data.rows) = Len(csv.rows)
    /\ \A r \in 1..Len(csv.rows) :
          /\ Len(session.data.rows[r]) = Len(csv.rows[r])
          /\ \A j \in 1..Len(csv.rows[r]) : FieldOf(session.data.rows[r][j], csv.rows[r][j])

\* C10 as stated: when the uploader has read a file the columns and the rows
\* are as many as in the file, the rows are those of the file, a column whose
\* trimmed lower-cased name is date, description or amount bears the
\* canonical name, and every other column bears the name it has in the file.
C10_OtherColumnsUnchanged ==
    (pc = "table" /\ csv.kind = "ok") =>
        /\ session.has
        /\ Len(session.data.cols) = Len(csv.cols)
        /\ RowsOfFile
        /\ \A j \in 1..Len(csv.cols) :
              IF \E key \in Known : AliasOf(csv.cols[j], key)
              THEN \E key \in Known :
                      AliasOf(csv.cols[j], key) /\ session.data.cols[j] = Canonical(key)
              ELSE session.data.cols[j] = csv.cols[j]

\* C10, amended: ... and every other column bears its name of the file
\* trimmed and lower-cased.
C10_OtherColumnsLowered ==
    (pc = "table" /\ csv.kind = "ok") =>
        /\ session.has
        /\ Len(session.data.cols) = Len(csv.cols)
        /\ RowsOfFile
        /\ \A j \in 1..Len(csv.cols) :
              IF \E key \in Known : AliasOf(csv.cols[j], key)
              THEN \E key \in Known :
                      AliasOf(csv.cols[j], key) /\ session.data.cols[j] = Canonical(key)
              ELSE AliasOf(csv.cols[j], session.data.cols[j])

\* a file with a column " NOTÉ", read as noté, beside a column Amount
C10_Witness ==
    /\ pc = "table"
    /\ csv.kind = "ok"
    /\ Len(csv.rows) = 1
    /\ csv.cols[2] = <<" ","N","O","T","É">>
    /\ session.data.cols[2] = <<"n","o","t","é">>
    /\ csv.cols[3] = <<"A","m","o","u","n","t">>
    /\ session.data.cols[3] = <<"A","m","o","u","n","t">>

\* a file whose one amount is the field TrUe, stored as the bool True
C10_WitnessBool ==
    /\ pc = "table"
    /\ csv.kind = "ok"
    /\ Len(csv.rows) = 1
    /\ csv.rows[1][3] = <<"T","r","U","e">>
    /\ session.data.rows[1][3] = PyBool(TRUE)

\* a file of two lines in which 12 stands above a missing amount
C10_WitnessRows ==
    /\ pc = "table"
    /\ csv.kind = "ok"
    /\ Len(csv.rows) = 2
    /\ csv.rows[1][3] = <<"1","2">>
    /\ session.data.rows[1][3] = PyFloat(1200)
    /\ session.data.rows[2][3] = NaN

\* a file whose names differ from the canonical ones in case and white
\* space, a form feed among it
C10_WitnessAlias ==
    /\ pc = "table"
    /\ csv.kind = "ok"
    /\ csv.cols[3] = <<"A","M","O","U","N","T","\f">>
    /\ session.data.cols = <<cDate, cDescription, cAmount>>

====
